---- MODULE Spec2Model ----
(***************************************************************************)
(* Model of the two-pass sentence chunker (a_sentence_chunker.c).          *)
(*                                                                         *)
(* A text is a sequence of byte values (ASCII codes); C index k is element *)
(* k+1 of the sequence, and index Len(text) holds the terminating NUL of   *)
(* the C string.  A chunk is a record [start_offset, length].              *)
(*                                                                         *)
(* Pass 1 (a_sentence_chunker) is modelled one loop iteration per step,    *)
(* pass 2 (a_rechunk_sentences) one buffer append or in-place merge per    *)
(* step, so that every intermediate content of the output buffers is a     *)
(* state of the model.                                                     *)
(***************************************************************************)
EXTENDS Integers, Sequences, FiniteSets, TLC

\* ------------------------------------------------------------------------
\* Bounds of the model
\* ------------------------------------------------------------------------

\* Longest text drawn exhaustively over Alphabet.
MaxLen == 4

\* Largest max_length drawn exhaustively (0 <= min_length <= max_length).
MaxMax == 3

\* ------------------------------------------------------------------------
\* Character classes
\* ------------------------------------------------------------------------

\* '.' = 46, '?' = 63, '!' = 33
is_sentence_punct(c) == c \in {46, 63, 33}

\* ' ' = 32, '\t' = 9, '\n' = 10, '\r' = 13
is_whitespace(c) == c \in {32, 9, 10, 13}

is_alpha(c) == (c >= 97 /\ c <= 122) \/ (c >= 65 /\ c <= 90)

\* <ctype.h> in the "C" locale, applied to (unsigned char) values.
isdigit(c) == c >= 48 /\ c <= 57

isupper(c) == c >= 65 /\ c <= 90

islower(c) == c >= 97 /\ c <= 122

\* isspace also accepts '\v' = 11 and '\f' = 12.
isspace(c) == c \in {32, 9, 10, 11, 12, 13}

tolower(c) == IF isupper(c) THEN c + 32 ELSE c

\* text[k] for 0 <= k <= strlen(text): index strlen(text) is the NUL byte.
At(t, k) == IF k < Len(t) THEN t[k + 1] ELSE 0

\* size_t arithmetic wraps.  The build's size_t is 64 bits wide; the modulus
\* used here is 2^30 (TLC integers are 32 bits wide), far above
\* every index of the model, so a difference wraps exactly when it is
\* negative and a wrapped value exceeds every index.
Wrap(x) == x % 1073741824

\* ------------------------------------------------------------------------
\* Abbreviation table
\* ------------------------------------------------------------------------

ABBREVS ==
    { <<77, 114>>,              \* Mr
      <<77, 114, 115>>,         \* Mrs
      <<77, 115>>,              \* Ms
      <<68, 114>>,              \* Dr
      <<83, 116>>,              \* St
      <<101, 116, 99>>,         \* etc
      <<105, 46, 101>>,         \* i.e
      <<101, 46, 103>>,         \* e.g
      <<118, 115>>,             \* vs
      <<73, 110, 99>>,          \* Inc
      <<67, 111, 114, 112>>,    \* Corp
      <<76, 116, 100>>,         \* Ltd
      <<67, 111>>,              \* Co
      <<74, 114>>,              \* Jr
      <<83, 114>>,              \* Sr
      <<80, 104, 46, 68>> }     \* Ph.D

\* strcasecmp(a, b) == 0 for NUL-free byte strings.
strcasecmp_eq(a, b) ==
    /\ Len(a) = Len(b)
    /\ \A k \in 1..Len(a) : tolower(a[k]) = tolower(b[k])

\* ------------------------------------------------------------------------
\* Helper functions of the first pass
\* ------------------------------------------------------------------------

RECURSIVE skip_spaces(_, _, _)
skip_spaces(t, start, len) ==
    IF start < len /\ is_whitespace(At(t, start))
    THEN skip_spaces(t, start + 1, len)
    ELSE start

\* The loop "while (start >= 0 && !is_whitespace(text[start])) start--":
\* the (signed) index it ends on, -1 when it runs off the front.
RECURSIVE abbrev_scan_back(_, _)
abbrev_scan_back(t, start) ==
    IF start >= 0 /\ ~is_whitespace(At(t, start))
    THEN abbrev_scan_back(t, start - 1)
    ELSE start

\* Whether matches_abbreviation gets past its two early returns and so
\* evaluates text[i+1] (line 76), with no test of i+1 against the length.
abbrev_reads_next(t, i) ==
    /\ i # 0
    /\ i - (abbrev_scan_back(t, i - 1) + 1) > 0

\* Mutant of matches_abbreviation: the test of the letter after the '.'
\* (line 76) is left out.
matches_abbreviation_no_letter_rule(t, i) ==
    IF i = 0 THEN FALSE
    ELSE LET start      == abbrev_scan_back(t, i - 1)
             abbrev_len == i - (start + 1)
             buf        == [k \in 1..abbrev_len |-> At(t, start + k)]
         IN  IF abbrev_len <= 0 THEN FALSE
             ELSE IF abbrev_len = 1 /\ isupper(At(t, start + 1)) THEN TRUE
             ELSE IF abbrev_len = 1 /\ ~is_whitespace(At(t, i + 1)) THEN TRUE
             ELSE IF abbrev_len >= 32 THEN FALSE
             ELSE \E a \in ABBREVS : strcasecmp_eq(buf, a)

matches_abbreviation(t, i) ==
    IF i = 0 THEN FALSE
    ELSE LET start      == abbrev_scan_back(t, i - 1)
             abbrev_len == i - (start + 1)
             buf        == [k \in 1..abbrev_len |-> At(t, start + k)]
         IN  IF abbrev_len <= 0 THEN FALSE
             ELSE IF is_alpha(At(t, i + 1)) THEN TRUE
             ELSE IF abbrev_len = 1 /\ isupper(At(t, start + 1)) THEN TRUE
             ELSE IF abbrev_len = 1 /\ ~is_whitespace(At(t, i + 1)) THEN TRUE
             ELSE IF abbrev_len >= 32 THEN FALSE
             ELSE \E a \in ABBREVS : strcasecmp_eq(buf, a)

is_just_digits(t, start, i) ==
    IF i <= start THEN FALSE
    ELSE \A pos \in start..(i - 1) : isdigit(At(t, pos))

\* The word_start loop of the ordinal rule.
RECURSIVE ordinal_word_start(_, _)
ordinal_word_start(t, word_start) ==
    IF /\ word_start > 0
       /\ ~is_whitespace(At(t, word_start - 1))
       /\ At(t, word_start - 1) # 46
    THEN ordinal_word_start(t, word_start - 1)
    ELSE word_start

\* Mutant of ordinal_suppressed: every '.' after an all-digit word is
\* suppressed, whatever follows it.
ordinal_suppressed_always(t, i, len) ==
    /\ At(t, i) = 46
    /\ is_just_digits(t, ordinal_word_start(t, i), i)

\* Rule 3 of the heuristic: the '.' at i follows an all-digit word and the
\* next non-whitespace byte is missing, a digit or a lower-case letter.
ordinal_suppressed(t, i, len) ==
    /\ At(t, i) = 46
    /\ is_just_digits(t, ordinal_word_start(t, i), i)
    /\ LET j == skip_spaces(t, i + 1, len)
       IN  \/ j >= len
           \/ isdigit(At(t, j))
           \/ islower(At(t, j))

is_end_of_sentence_heuristic(t, i, len) ==
    LET c == At(t, i)
        decimal ==
            /\ c = 46 /\ i > 0 /\ i < len - 1
            /\ isdigit(At(t, i - 1)) /\ isdigit(At(t, i + 1))
        abbrev == c = 46 /\ matches_abbreviation(t, i)
    IN  IF decimal THEN FALSE
        ELSE IF abbrev THEN FALSE
        ELSE IF ordinal_suppressed(t, i, len) THEN FALSE
        ELSE TRUE

RECURSIVE consume_multiple_punctuation(_, _, _)
consume_multiple_punctuation(t, i, len) ==
    IF (i + 1) < len /\ is_sentence_punct(At(t, i + 1))
    THEN consume_multiple_punctuation(t, i + 1, len)
    ELSE i

\* '"' = 34, '\'' = 39, ')' = 41, ']' = 93, '}' = 125
is_closer(c) == c \in {34, 39, 41, 93, 125} \/ is_sentence_punct(c)

RECURSIVE consume_trailing_closers(_, _, _)
consume_trailing_closers(t, i, len) ==
    IF (i + 1) < len /\ is_closer(At(t, i + 1))
    THEN consume_trailing_closers(t, i + 1, len)
    ELSE i

\* The indices k for which text[k] is evaluated through an expression
\* text[x + 1] while the punctuation starting at index i is handled: the
\* punctuation run, the decimal test, the abbreviation tests and, for a
\* terminal byte, the trailing closers.
next_byte_reads(t, i, len) ==
    LET p == consume_multiple_punctuation(t, i, len)
        run == { k + 1 : k \in { x \in i..p : (x + 1) < len } }
        decimal ==
            IF /\ At(t, p) = 46 /\ p > 0 /\ p < len - 1
               /\ isdigit(At(t, p - 1))
            THEN {p + 1} ELSE {}
        isDecimal ==
            /\ decimal # {}
            /\ isdigit(At(t, p + 1))
        abbrev ==
            IF ~isDecimal /\ At(t, p) = 46 /\ abbrev_reads_next(t, p)
            THEN {p + 1} ELSE {}
        q == consume_trailing_closers(t, p, len)
        closers ==
            IF is_end_of_sentence_heuristic(t, p, len)
            THEN { k + 1 : k \in { x \in p..q : (x + 1) < len } }
            ELSE {}
    IN  run \cup decimal \cup abbrev \cup closers

\* ------------------------------------------------------------------------
\* Inputs
\* ------------------------------------------------------------------------

\* '.', ' ', '\n', '1', 'A', 'a'
Alphabet == {46, 32, 10, 49, 65, 97}

\* The text "1. First item 2. Second item."
OrdinalListText ==
    <<49, 46, 32, 70, 105, 114, 115, 116, 32, 105, 116, 101, 109, 32, 50, 46,
      32, 83, 101, 99, 111, 110, 100, 32, 105, 116, 101, 109, 46>>

\* Longer texts that exercise the abbreviation table, decimals, ordinals,
\* punctuation runs, closers, '\v' and the (5, 20) length window.
ScenarioTexts ==
    {
      \* '. . aaaa'
      <<46, 32, 46, 32, 97, 97, 97, 97>>,
      \* 'Supercalifragilisticexpialidocious! ok'
      <<83, 117, 112, 101, 114, 99, 97, 108, 105, 102, 114, 97, 103, 105, 108, 105, 115, 116, 105, 99, 101, 120, 112, 105, 97, 108, 105, 100, 111, 99, 105, 111, 117, 115, 33, 32, 111, 107>>,
      \* 'ab\x0bcd'
      <<97, 98, 11, 99, 100>>,
      \* 'Hello! ok. alpha beta gamma delta epsilon zeta'
      <<72, 101, 108, 108, 111, 33, 32, 111, 107, 46, 32, 97, 108, 112, 104, 97, 32, 98, 101, 116, 97, 32, 103, 97, 109, 109, 97, 32, 100, 101, 108, 116, 97, 32, 101, 112, 115, 105, 108, 111, 110, 32, 122, 101, 116, 97>>,
      \* 'A! a? 1!'
      <<65, 33, 32, 97, 63, 32, 49, 33>>,
      \* 'a\n\nb c'
      <<97, 10, 10, 98, 32, 99>>,
      \* 'Hi!) ok'
      <<72, 105, 33, 41, 32, 111, 107>>,
      OrdinalListText,
      \* 'Dr. Who met Mr. X.'
      <<68, 114, 46, 32, 87, 104, 111, 32, 109, 101, 116, 32, 77, 114, 46, 32, 88, 46>>,
      \* 'Pi is 3.14 now. Ok?'
      <<80, 105, 32, 105, 115, 32, 51, 46, 49, 52, 32, 110, 111, 119, 46, 32, 79, 107, 63>>,
      \* 'Wait... Really?! Yes.'
      <<87, 97, 105, 116, 46, 46, 46, 32, 82, 101, 97, 108, 108, 121, 63, 33, 32, 89, 101, 115, 46>>,
      \* 'He said "Hi." Then left.'
      <<72, 101, 32, 115, 97, 105, 100, 32, 34, 72, 105, 46, 34, 32, 84, 104, 101, 110, 32, 108, 101, 102, 116, 46>>,
      \* 'Hi. It works fine now.'
      <<72, 105, 46, 32, 73, 116, 32, 119, 111, 114, 107, 115, 32, 102, 105, 110, 101, 32, 110, 111, 119, 46>>,
      \* 'alpha beta gamma delta epsilon zeta eta theta'
      <<97, 108, 112, 104, 97, 32, 98, 101, 116, 97, 32, 103, 97, 109, 109, 97, 32, 100, 101, 108, 116, 97, 32, 101, 112, 115, 105, 108, 111, 110, 32, 122, 101, 116, 97, 32, 101, 116, 97, 32, 116, 104, 101, 116, 97>>,
      \* 'ab\x0bcd ef'
      <<97, 98, 11, 99, 100, 32, 101, 102>>,
      \* 'abcdefgh '
      <<97, 98, 99, 100, 101, 102, 103, 104, 32>>,
      \* '  abc def'
      <<32, 32, 97, 98, 99, 32, 100, 101, 102>>,
      \* 'e.g. x) 2. a'
      <<101, 46, 103, 46, 32, 120, 41, 32, 50, 46, 32, 97>>
    }

Texts == (UNION { [1..n -> Alphabet] : n \in 0..MaxLen }) \cup ScenarioTexts

\* (min_length, max_length) pairs with 0 <= min_length <= max_length.
Params ==
    { <<mn, mx>> \in (0..MaxMax) \X (0..MaxMax) : mn <= mx } \cup { <<5, 20>> }

\* ------------------------------------------------------------------------
\* State
\* ------------------------------------------------------------------------

VARIABLES
    text,        \* the input text (read-only)
    pc,          \* position in the pipeline
    i,           \* a_sentence_chunker: scan cursor
    start_off,   \* a_sentence_chunker: start of the current candidate chunk
    chunks,      \* first-pass buffer (bh)
    terminals,   \* indices classified as end of sentence so far
    nextReads,   \* indices read as text[x+1] by the last scan step
    min_length,  \* a_rechunk_sentences: argument
    max_length,  \* a_rechunk_sentences: argument
    ri,          \* a_rechunk_sentences: loop index i
    out,         \* second-pass buffer (second_buffer)
    remaining,   \* a_rechunk_sentences: the chunk being split
    splitReads   \* text indices read by the last call of find_split_point

vars == <<text, pc, i, start_off, chunks, terminals, nextReads,
          min_length, max_length, ri, out, remaining, splitReads>>

rechunkVars == <<min_length, max_length, ri, out, remaining, splitReads>>

segVars == <<i, start_off, chunks, terminals, nextReads>>

Chunk(s, l) == [start_offset |-> s, length |-> l]

NoChunk == Chunk(0, 0)

Init ==
    /\ text \in Texts
    /\ pc = "start"
    /\ i = 0
    /\ start_off = 0
    /\ chunks = <<>>
    /\ terminals = {}
    /\ nextReads = {}
    /\ min_length = 0
    /\ max_length = 0
    /\ ri = 0
    /\ out = <<>>
    /\ remaining = NoChunk
    /\ splitReads = {}

\* ------------------------------------------------------------------------
\* First pass: a_sentence_chunker
\* ------------------------------------------------------------------------

\* Entry: clear the buffer; an empty text returns at once with count 0.
ChunkerEntry ==
    /\ pc = "start"
    /\ chunks' = <<>>
    /\ i' = 0
    /\ start_off' = 0
    /\ pc' = IF Len(text) = 0 THEN "segdone" ELSE "scan"
    /\ UNCHANGED <<text, terminals, nextReads, rechunkVars>>

\* Mutant of boundary_length: the length counts one byte too many.
boundary_length_off_by_one(last_punct, start) ==
    Wrap((last_punct + 2) - start)

\* boundary_len of the chunk [start, last_punct + 1).
boundary_length(last_punct, start) == Wrap((last_punct + 1) - start)

\* Mutant of next_start_off: the byte after last_punct is skipped unseen.
next_start_off_skips_a_byte(t, last_punct, len) ==
    skip_spaces(t, last_punct + 2, len)

\* Where the next sentence starts: after last_punct, past any whitespace.
next_start_off(t, last_punct, len) == skip_spaces(t, last_punct + 1, len)

\* A loop iteration on a byte that is not sentence punctuation.
SegNormalChar ==
    /\ pc = "scan"
    /\ i < Len(text)
    /\ ~is_sentence_punct(At(text, i))
    /\ i' = i + 1
    /\ nextReads' = {}
    /\ UNCHANGED <<text, pc, start_off, chunks, terminals, rechunkVars>>

\* A loop iteration on punctuation classified as end of sentence.
SegTerminal ==
    /\ pc = "scan"
    /\ i < Len(text)
    /\ is_sentence_punct(At(text, i))
    /\ LET len == Len(text)
           p == consume_multiple_punctuation(text, i, len)
           last_punct == consume_trailing_closers(text, p, len)
           boundary_len == boundary_length(last_punct, start_off)
       IN  /\ is_end_of_sentence_heuristic(text, p, len)
           /\ chunks' = IF boundary_len > 0
                        THEN Append(chunks, Chunk(start_off, boundary_len))
                        ELSE chunks
           /\ i' = last_punct + 1
           /\ start_off' = next_start_off(text, last_punct, len)
           /\ terminals' = terminals \cup {p}
           /\ nextReads' = next_byte_reads(text, i, len)
    /\ UNCHANGED <<text, pc, rechunkVars>>

\* Mutant of SegNonTerminal: the cursor is left on the last punctuation of
\* the run instead of being moved past it.
SegNonTerminal_cursor_stays ==
    /\ pc = "scan"
    /\ i < Len(text)
    /\ is_sentence_punct(At(text, i))
    /\ LET len == Len(text)
           p == consume_multiple_punctuation(text, i, len)
       IN  /\ ~is_end_of_sentence_heuristic(text, p, len)
           /\ i' = p
           /\ nextReads' = next_byte_reads(text, i, len)
    /\ UNCHANGED <<text, pc, start_off, chunks, terminals, rechunkVars>>

\* A loop iteration on punctuation that is not a boundary.
SegNonTerminal ==
    /\ pc = "scan"
    /\ i < Len(text)
    /\ is_sentence_punct(At(text, i))
    /\ LET len == Len(text)
           p == consume_multiple_punctuation(text, i, len)
       IN  /\ ~is_end_of_sentence_heuristic(text, p, len)
           /\ i' = p + 1
           /\ nextReads' = next_byte_reads(text, i, len)
    /\ UNCHANGED <<text, pc, start_off, chunks, terminals, rechunkVars>>

\* Loop exit: capture the leftover [start_off, len) and return.
SegFinish ==
    /\ pc = "scan"
    /\ i >= Len(text)
    /\ LET len == Len(text)
           boundary_len == Wrap(len - start_off)
       IN  chunks' = IF start_off < len /\ boundary_len > 0
                     THEN Append(chunks, Chunk(start_off, boundary_len))
                     ELSE chunks
    /\ nextReads' = {}
    /\ pc' = "segdone"
    /\ UNCHANGED <<text, i, start_off, terminals, rechunkVars>>


\* ------------------------------------------------------------------------
\* Second pass: split point search
\* ------------------------------------------------------------------------

\* Mutant of scan_back_ws: the loop tests isspace, as the split heuristics
\* do, so '\v' and '\f' count as token boundaries.
RECURSIVE scan_back_isspace(_, _, _)
scan_back_isspace(t, chunk_start, j) ==
    IF j > chunk_start
    THEN IF isspace(At(t, j)) THEN j
         ELSE scan_back_isspace(t, chunk_start, j - 1)
    ELSE -1

\* First loop of adjust_for_token_boundary: the nearest whitespace index in
\* (chunk_start, j], or -1 when there is none.
RECURSIVE scan_back_ws(_, _, _)
scan_back_ws(t, chunk_start, j) ==
    IF j > chunk_start
    THEN IF is_whitespace(At(t, j)) THEN j
         ELSE scan_back_ws(t, chunk_start, j - 1)
    ELSE -1

\* Second loop: the nearest whitespace index in [j, chunk_end), or -1.
RECURSIVE scan_fwd_ws(_, _, _)
scan_fwd_ws(t, chunk_end, j) ==
    IF j < chunk_end
    THEN IF is_whitespace(At(t, j)) THEN j
         ELSE scan_fwd_ws(t, chunk_end, j + 1)
    ELSE -1

\* Mutant of adjust_for_token_boundary: the candidate is returned as it is.
adjust_for_token_boundary_none(t, chunk_start, chunk_end, candidate) ==
    candidate

adjust_for_token_boundary(t, chunk_start, chunk_end, candidate) ==
    IF candidate <= chunk_start \/ candidate >= chunk_end THEN candidate
    ELSE LET b == scan_back_ws(t, chunk_start, candidate)
             f == scan_fwd_ws(t, chunk_end, candidate)
         IN  IF b # -1 THEN b
             ELSE IF f # -1 THEN f
             ELSE 0

\* Mutant of MaxOf: the loops run upward, so the smallest match decides.
MinOf(S) == CHOOSE x \in S : \A y \in S : x <= y

MaxOf(S) == CHOOSE x \in S : \A y \in S : y <= x

\* The window bounds of find_split_point for the chunk (start_offset,
\* length), in size_t arithmetic.
search_start(start_offset, mn) == Wrap(start_offset + mn)

search_end(start_offset, mx) == Wrap(start_offset + mx)

valid_split_end(start_offset, length, mn) == Wrap(start_offset + length - mn)

\* The values i of a heuristic loop: for (i = search_end; i > search_start; i--).
Window(start_offset, mn, mx) ==
    (search_start(start_offset, mn) + 1)..search_end(start_offset, mx)

\* Heuristic 1, two consecutive newlines: the i of the window that match.
h1_matches(t, start_offset, length, mn, mx) ==
    { k \in Window(start_offset, mn, mx) :
        /\ Wrap(k - 1) >= search_start(start_offset, mn)
        /\ k < start_offset + length
        /\ At(t, k - 1) = 10
        /\ At(t, k) = 10 }

\* Heuristic 1b, three whitespace bytes in a row.  ub is the outcome of
\* isspace on the byte before the buffer, which the test evaluates
\* (text[i - 2] with i = 1, the index wrapped) when the window starts at
\* index 0: the value of that byte is not determined by the program.
h1b_matches(t, start_offset, length, mn, mx, ub) ==
    { k \in Window(start_offset, mn, mx) :
        /\ Wrap(k - 2) >= search_start(start_offset, mn)
        /\ k < start_offset + length
        /\ IF k - 2 < 0 THEN ub ELSE isspace(At(t, k - 2))
        /\ isspace(At(t, k - 1))
        /\ isspace(At(t, k)) }

\* Heuristic 2, a single newline.
h2_matches(t, start_offset, mn, mx) ==
    { k \in Window(start_offset, mn, mx) : At(t, k) = 10 }

\* Heuristic 3, punctuation + whitespace + upper-case letter.
h3_matches(t, start_offset, length, mn, mx) ==
    { k \in Window(start_offset, mn, mx) :
        /\ k < start_offset + length
        /\ At(t, k - 1) \in {46, 33, 63}
        /\ is_whitespace(At(t, k))
        /\ LET j == skip_spaces(t, k + 1, start_offset + length)
           IN  j < start_offset + length /\ isupper(At(t, j)) }

\* Heuristic 4, any isspace byte.
h4_matches(t, start_offset, mn, mx) ==
    { k \in Window(start_offset, mn, mx) : isspace(At(t, k)) }

\* The five heuristic loops each run i from search_end down to
\* search_start + 1 and return at their first match, so each is decided by
\* the largest matching i.
find_split_point(t, start_offset, length, mn, mx, ub) ==
    LET end_offset == start_offset + length
        Adjusted(c) ==
            LET adjusted ==
                    adjust_for_token_boundary(t, start_offset, end_offset, c)
            IN  IF adjusted > start_offset /\ adjusted < end_offset
                THEN adjusted
                ELSE end_offset
        H1  == h1_matches(t, start_offset, length, mn, mx)
        H1b == h1b_matches(t, start_offset, length, mn, mx, ub)
        H2  == h2_matches(t, start_offset, mn, mx)
        H3  == h3_matches(t, start_offset, length, mn, mx)
        H4  == h4_matches(t, start_offset, mn, mx)
    IN  IF length <= mx THEN end_offset
        ELSE IF search_end(start_offset, mx)
                  > valid_split_end(start_offset, length, mn)
        THEN end_offset
        ELSE IF search_start(start_offset, mn) >= search_end(start_offset, mx)
        THEN end_offset
        ELSE IF H1 # {} THEN Adjusted(MaxOf(H1))
        ELSE IF H1b # {} THEN Adjusted(MaxOf(H1b))
        ELSE IF H2 # {} THEN Adjusted(MaxOf(H2))
        ELSE IF H3 # {} THEN Adjusted(MaxOf(H3))
        ELSE IF H4 # {} THEN Adjusted(MaxOf(H4))
        ELSE Adjusted(search_end(start_offset, mx))

\* The text indices adjust_for_token_boundary reads: its backward loop reads
\* text[j] from the candidate down to the whitespace it returns, or down to
\* chunk_start + 1; then the forward loop reads from the candidate up to the
\* whitespace it returns, or up to chunk_end - 1.
adjust_reads(t, chunk_start, chunk_end, candidate) ==
    IF candidate <= chunk_start \/ candidate >= chunk_end THEN {}
    ELSE LET b == scan_back_ws(t, chunk_start, candidate)
             f == scan_fwd_ws(t, chunk_end, candidate)
         IN  IF b # -1 THEN b..candidate
             ELSE ((chunk_start + 1)..candidate)
                  \cup (IF f # -1 THEN candidate..f
                        ELSE candidate..(chunk_end - 1))

\* The values of i a heuristic loop goes through: from search_end down to
\* its largest match, or the whole window when nothing matches.
Scanned(start_offset, mn, mx, matches) ==
    IF matches = {} THEN Window(start_offset, mn, mx)
    ELSE MaxOf(matches)..search_end(start_offset, mx)

\* The text indices one iteration of the heuristic 1 loop reads (the && of
\* C evaluates left to right and stops at the first false operand).
h1_reads(t, start_offset, length, mn, k) ==
    IF Wrap(k - 1) >= search_start(start_offset, mn)
       /\ k < start_offset + length
    THEN {Wrap(k - 1)} \cup (IF At(t, k - 1) = 10 THEN {k} ELSE {})
    ELSE {}

\* The same for heuristic 1b: the index i - 2 is computed in size_t, so for
\* i = 1 it is the wrapped index, which passes the test against
\* search_start and is then read.
h1b_reads(t, start_offset, length, mn, ub, k) ==
    IF Wrap(k - 2) >= search_start(start_offset, mn)
       /\ k < start_offset + length
    THEN {Wrap(k - 2)}
         \cup (IF (IF k - 2 < 0 THEN ub ELSE isspace(At(t, k - 2)))
               THEN {k - 1}
                    \cup (IF isspace(At(t, k - 1)) THEN {k} ELSE {})
               ELSE {})
    ELSE {}

\* The same for heuristic 3: prev and curr are read first, then the loop
\* over the whitespace that follows reads up to the byte that stops it.
h3_reads(t, start_offset, length, k) ==
    IF k < start_offset + length
    THEN {k - 1, k}
         \cup (IF At(t, k - 1) \in {46, 33, 63} /\ is_whitespace(At(t, k))
               THEN LET j == skip_spaces(t, k + 1, start_offset + length)
                    IN  IF j < start_offset + length
                        THEN (k + 1)..j
                        ELSE (k + 1)..(start_offset + length - 1)
               ELSE {})
    ELSE {}

\* The text indices a call of find_split_point reads, adjust_for_token_boundary
\* included: each heuristic loop in turn up to the one that returns.
find_split_point_reads(t, start_offset, length, mn, mx, ub) ==
    LET end_offset == start_offset + length
        H1  == h1_matches(t, start_offset, length, mn, mx)
        H1b == h1b_matches(t, start_offset, length, mn, mx, ub)
        H2  == h2_matches(t, start_offset, mn, mx)
        H3  == h3_matches(t, start_offset, length, mn, mx)
        H4  == h4_matches(t, start_offset, mn, mx)
        R1  == UNION { h1_reads(t, start_offset, length, mn, k) :
                          k \in Scanned(start_offset, mn, mx, H1) }
        R1b == UNION { h1b_reads(t, start_offset, length, mn, ub, k) :
                          k \in Scanned(start_offset, mn, mx, H1b) }
        R2  == Scanned(start_offset, mn, mx, H2)
        R3  == UNION { h3_reads(t, start_offset, length, k) :
                          k \in Scanned(start_offset, mn, mx, H3) }
        R4  == Scanned(start_offset, mn, mx, H4)
        A(c) == adjust_reads(t, start_offset, end_offset, c)
    IN  IF length <= mx THEN {}
        ELSE IF search_end(start_offset, mx)
                  > valid_split_end(start_offset, length, mn)
        THEN {}
        ELSE IF search_start(start_offset, mn) >= search_end(start_offset, mx)
        THEN {}
        ELSE IF H1 # {} THEN R1 \cup A(MaxOf(H1))
        ELSE IF H1b # {} THEN R1 \cup R1b \cup A(MaxOf(H1b))
        ELSE IF H2 # {} THEN R1 \cup R1b \cup R2 \cup A(MaxOf(H2))
        ELSE IF H3 # {} THEN R1 \cup R1b \cup R2 \cup R3 \cup A(MaxOf(H3))
        ELSE IF H4 # {}
        THEN R1 \cup R1b \cup R2 \cup R3 \cup R4 \cup A(MaxOf(H4))
        ELSE R1 \cup R1b \cup R2 \cup R3 \cup R4
             \cup A(search_end(start_offset, mx))

\* ------------------------------------------------------------------------
\* Second pass: a_rechunk_sentences
\* ------------------------------------------------------------------------

\* first_pass_chunks[ri]
current == chunks[ri + 1]

\* Mutant of backward_combined_len: the two lengths are added, which leaves
\* out the bytes between the two chunks.
backward_combined_len_sum == out[Len(out)].length + current.length

\* combined_len of the backward merge: up to the end of the current chunk,
\* from the start of the last record of second_buffer.
backward_combined_len ==
    Wrap((current.start_offset + current.length)
            - out[Len(out)].start_offset)

\* Mutant of backward_merges: the test combined_len <= max_length is left
\* out.
backward_merges_any_length ==
    ri > 0

\* The backward merge applies: i > 0 and the combined length fits.
backward_merges ==
    /\ ri > 0
    /\ backward_combined_len <= max_length

\* combined_len of the forward merge with first_pass_chunks[ri + 1].
forward_combined_len ==
    Wrap((chunks[ri + 2].start_offset + chunks[ri + 2].length)
            - current.start_offset)

forward_merges ==
    /\ (ri + 1) < Len(chunks)
    /\ forward_combined_len <= max_length

\* Entry: clear second_buffer; the caller passes the first pass's chunks and
\* a (min_length, max_length) pair.
RechunkEntry ==
    /\ pc = "segdone"
    /\ \E prm \in Params :
          /\ min_length' = prm[1]
          /\ max_length' = prm[2]
    /\ out' = <<>>
    /\ ri' = 0
    /\ pc' = "rechunk"
    /\ UNCHANGED <<text, segVars, remaining, splitReads>>

\* CASE 1: the chunk is within [min_length, max_length].
RechunkInRange ==
    /\ pc = "rechunk"
    /\ ri < Len(chunks)
    /\ current.length >= min_length
    /\ current.length <= max_length
    /\ out' = Append(out, current)
    /\ ri' = ri + 1
    /\ splitReads' = {}
    /\ UNCHANGED <<text, pc, segVars, min_length, max_length, remaining>>

\* CASE 2, merged with the previously appended chunk, in place.
RechunkBackwardMerge ==
    /\ pc = "rechunk"
    /\ ri < Len(chunks)
    /\ current.length < min_length
    /\ backward_merges
    /\ out' = [out EXCEPT ![Len(out)].length = backward_combined_len]
    /\ ri' = ri + 1
    /\ splitReads' = {}
    /\ UNCHANGED <<text, pc, segVars, min_length, max_length, remaining>>

\* CASE 2, merged forward with the next input chunk, which is skipped.
RechunkForwardMerge ==
    /\ pc = "rechunk"
    /\ ri < Len(chunks)
    /\ current.length < min_length
    /\ ~backward_merges
    /\ forward_merges
    /\ out' = Append(out, Chunk(current.start_offset, forward_combined_len))
    /\ ri' = ri + 2
    /\ splitReads' = {}
    /\ UNCHANGED <<text, pc, segVars, min_length, max_length, remaining>>

\* Mutant of RechunkShortAsIs: the chunk that was not merged is dropped
\* instead of appended (the test "if (!merged)" inverted).
RechunkShortAsIs_dropped ==
    /\ pc = "rechunk"
    /\ ri < Len(chunks)
    /\ current.length < min_length
    /\ ~backward_merges
    /\ ~forward_merges
    /\ out' = out
    /\ ri' = ri + 1
    /\ splitReads' = {}
    /\ UNCHANGED <<text, pc, segVars, min_length, max_length, remaining>>

\* CASE 2, never merged: appended as is.
RechunkShortAsIs ==
    /\ pc = "rechunk"
    /\ ri < Len(chunks)
    /\ current.length < min_length
    /\ ~backward_merges
    /\ ~forward_merges
    /\ out' = Append(out, current)
    /\ ri' = ri + 1
    /\ splitReads' = {}
    /\ UNCHANGED <<text, pc, segVars, min_length, max_length, remaining>>

\* CASE 3: the chunk is too long; enter the split loop.
RechunkSplitBegin ==
    /\ pc = "rechunk"
    /\ ri < Len(chunks)
    /\ ~(current.length >= min_length /\ current.length <= max_length)
    /\ ~(current.length < min_length)
    /\ remaining' = current
    /\ pc' = "split"
    /\ splitReads' = {}
    /\ UNCHANGED <<text, segVars, min_length, max_length, ri, out>>

\* The sub-chunk appended for a split at split_pt.
sub_chunk(split_pt) ==
    Chunk(remaining.start_offset, Wrap(split_pt - remaining.start_offset))

\* Mutant of leftover_after: the length is not reduced by the split.
leftover_after_keeps_length(split_pt) ==
    Chunk(split_pt, remaining.length)

\* The leftover after a split at split_pt.
leftover_after(split_pt) ==
    Chunk(split_pt,
          Wrap((remaining.start_offset + remaining.length) - split_pt))

\* Whether split_pt makes the loop give up.
split_gives_up(split_pt) ==
    \/ split_pt <= remaining.start_offset
    \/ split_pt >= remaining.start_offset + remaining.length

\* A split loop iteration that finds a split point: append the sub-chunk.
SplitAppend ==
    /\ pc = "split"
    /\ remaining.length > max_length
    /\ \E ub \in BOOLEAN :
          LET split_pt ==
                  find_split_point(text, remaining.start_offset,
                                   remaining.length, min_length, max_length,
                                   ub)
          IN  /\ ~split_gives_up(split_pt)
              /\ out' = Append(out, sub_chunk(split_pt))
              /\ remaining' = leftover_after(split_pt)
              /\ splitReads' =
                     find_split_point_reads(text, remaining.start_offset,
                                            remaining.length, min_length,
                                            max_length, ub)
    /\ UNCHANGED <<text, pc, segVars, min_length, max_length, ri>>

\* Loop exit (the remainder fits, or no valid split): append the leftover.
SplitLeftover ==
    /\ pc = "split"
    /\ \/ /\ remaining.length <= max_length
          /\ splitReads' = {}
       \/ /\ remaining.length > max_length
          /\ \E ub \in BOOLEAN :
                /\ split_gives_up(
                       find_split_point(text, remaining.start_offset,
                                        remaining.length, min_length,
                                        max_length, ub))
                /\ splitReads' =
                       find_split_point_reads(text, remaining.start_offset,
                                              remaining.length, min_length,
                                              max_length, ub)
    /\ out' = Append(out, remaining)
    /\ ri' = ri + 1
    /\ pc' = "rechunk"
    /\ UNCHANGED <<text, segVars, min_length, max_length, remaining>>

\* Loop exit of the main loop: build the final array.
RechunkFinish ==
    /\ pc = "rechunk"
    /\ ri >= Len(chunks)
    /\ pc' = "done"
    /\ splitReads' = {}
    /\ UNCHANGED <<text, segVars, min_length, max_length, ri, out, remaining>>

\* ------------------------------------------------------------------------
\* Properties
\* ------------------------------------------------------------------------

ChunkEnd(c) == c.start_offset + c.length

\* The byte indices covered by a chunk sequence.
Covered(seq) ==
    { k \in 0..(Len(text) - 1) :
        \E n \in 1..Len(seq) :
            seq[n].start_offset <= k /\ k < ChunkEnd(seq[n]) }

\* Every chunk is non-empty and inside the text, and consecutive chunks do
\* not overlap (so start offsets strictly increase).
WellFormed(seq) ==
    \A n \in 1..Len(seq) :
        /\ seq[n].length > 0
        /\ ChunkEnd(seq[n]) <= Len(text)
        /\ (n < Len(seq) => ChunkEnd(seq[n]) <= seq[n + 1].start_offset)

PassOneDone == pc \in {"segdone", "rechunk", "split", "done"}

\* C1: in every state of the first pass, and so in its result, every chunk
\* (s, l) has l > 0 and s + l <= L, and consecutive chunks (s1, l1),
\* (s2, l2) have s1 + l1 <= s2.
C1_SegmenterChunksWellFormed == WellFormed(chunks)

\* The first pass returned at least two chunks, with whitespace dropped
\* between two of them and a chunk ending at the end of the text.
C1_Witness ==
    /\ pc = "segdone"
    /\ Len(chunks) >= 2
    /\ ChunkEnd(chunks[1]) < chunks[2].start_offset
    /\ ChunkEnd(chunks[Len(chunks)]) = Len(text)

\* C2: once the first pass has returned, every byte index no chunk covers
\* holds a whitespace byte, and it lies in a run of whitespace that directly
\* follows a chunk ending on terminal punctuation and its closers.
C2_OnlyWhitespaceAfterTerminatorDropped ==
    PassOneDone =>
        \A k \in (0..(Len(text) - 1)) \ Covered(chunks) :
            /\ is_whitespace(At(text, k))
            /\ \E n \in 1..Len(chunks) :
                  /\ ChunkEnd(chunks[n]) <= k
                  /\ \A m \in ChunkEnd(chunks[n])..k :
                        is_whitespace(At(text, m))
                  /\ \E p \in terminals :
                        /\ chunks[n].start_offset <= p
                        /\ p < ChunkEnd(chunks[n])
                        /\ \A m \in (p + 1)..(ChunkEnd(chunks[n]) - 1) :
                              is_closer(At(text, m))

\* The first pass returned and left some byte index uncovered.
C2_Witness ==
    /\ pc = "segdone"
    /\ (0..(Len(text) - 1)) \ Covered(chunks) # {}

\* C3: in every state of the second pass (after every append and after
\* every in-place backward merge) every output chunk (s, l) has l > 0 and
\* s + l <= L, and consecutive output chunks do not overlap.
C3_RechunkerOutputWellFormed == WellFormed(out)

\* The second pass has finished after merging a short chunk backward into
\* the first output chunk and splitting a long chunk.
C3_Witness ==
    /\ pc = "done"
    /\ Len(chunks) = 3
    /\ Len(out) = 3
    /\ chunks[2].length < min_length
    /\ out[1].start_offset = chunks[1].start_offset
    /\ ChunkEnd(out[1]) = ChunkEnd(chunks[2])
    /\ chunks[3].length > max_length
    /\ out[2].start_offset = chunks[3].start_offset
    /\ ChunkEnd(out[2]) = out[3].start_offset
    /\ ChunkEnd(out[3]) = ChunkEnd(chunks[3])

\* C4 as stated: the second pass's output covers exactly the byte indices
\* its input covers.
C4_CoverageEqual ==
    pc = "done" => Covered(out) = Covered(chunks)

\* C4 as amended: the output covers every byte index the input covers, and
\* every byte index it covers in addition is a whitespace byte in the gap
\* between two consecutive input chunks that one output chunk joins.
C4_CoverageKeptGapsAdded ==
    pc = "done" =>
        /\ Covered(chunks) \subseteq Covered(out)
        /\ \A k \in Covered(out) \ Covered(chunks) :
              /\ is_whitespace(At(text, k))
              /\ \E n \in 1..(Len(chunks) - 1) :
                    /\ ChunkEnd(chunks[n]) <= k
                    /\ k < chunks[n + 1].start_offset
                    /\ \E m \in 1..Len(out) :
                          /\ out[m].start_offset < ChunkEnd(chunks[n])
                          /\ chunks[n + 1].start_offset < ChunkEnd(out[m])

\* The second pass has finished and a merge covered a gap byte.
C4_Witness ==
    /\ pc = "done"
    /\ Covered(out) \ Covered(chunks) # {}

\* The start offsets of the first-pass chunks.
InputStarts == { chunks[n].start_offset : n \in 1..Len(chunks) }

\* C5: in every state, an output chunk of the second pass that does not
\* start where an input chunk starts begins on a whitespace byte, so no
\* created boundary has a non-whitespace byte on both sides.
C5_NoTokenCut ==
    \A n \in 1..Len(out) :
        out[n].start_offset \notin InputStarts =>
            is_whitespace(At(text, out[n].start_offset))

\* The second pass has finished and created a boundary by splitting.
C5_Witness ==
    /\ pc = "done"
    /\ \E n \in 1..Len(out) : out[n].start_offset \notin InputStarts


AllWhitespace(t) == \A k \in 1..Len(t) : is_whitespace(t[k])

\* C6 as stated: for a non-empty text of whitespace bytes only, the first
\* pass returns an empty chunk sequence.
C6_WhitespaceOnlyTextGivesNoChunk ==
    (pc = "segdone" /\ Len(text) > 0 /\ AllWhitespace(text)) =>
        chunks = <<>>

\* The index of the first non-whitespace byte of a text that has one.
FirstNonWhitespace(t) ==
    CHOOSE k \in 0..(Len(t) - 1) :
        /\ ~is_whitespace(At(t, k))
        /\ \A m \in 0..(k - 1) : is_whitespace(At(t, m))

\* C7 as stated: when the first pass classified no punctuation as terminal
\* (and the text has a non-whitespace byte), it returns exactly one chunk,
\* from the first non-whitespace byte to the end of the text.
C7_NoTerminatorOneChunkFromFirstNonWhitespace ==
    (pc = "segdone" /\ terminals = {} /\ ~AllWhitespace(text)) =>
        chunks = << Chunk(FirstNonWhitespace(text),
                          Len(text) - FirstNonWhitespace(text)) >>

Unsplittable(c) ==
    /\ c.length > max_length
    /\ \A k \in (c.start_offset + 1)..(ChunkEnd(c) - 1) :
          ~is_whitespace(At(text, k))

\* C9: when the second pass has finished, every input chunk that is longer
\* than max_length and has no whitespace byte strictly inside it (at an
\* index k with s < k < s + l) is an output chunk, with the same start and
\* the same length, so nothing was merged into it.
C9_UnsplittableChunkSurvives ==
    pc = "done" =>
        \A n \in 1..Len(chunks) :
            Unsplittable(chunks[n]) =>
                \E m \in 1..Len(out) : out[m] = chunks[n]

\* The second pass has finished on an input with an unsplittable chunk that
\* is followed by a chunk shorter than min_length, and the search window of
\* find_split_point for the unsplittable chunk was not empty.
C9_Witness ==
    /\ pc = "done"
    /\ \E n \in 1..(Len(chunks) - 1) :
          /\ Unsplittable(chunks[n])
          /\ chunks[n].length >= min_length + max_length
          /\ min_length < max_length
          /\ chunks[n + 1].length < min_length

\* C10 as stated: every index read as text[x + 1] while a punctuation byte
\* is classified is below the length of the text.
C10_NextByteReadsBelowLength ==
    \A k \in nextReads : k < Len(text)


\* A split has been made in the chunk being processed: the last output
\* chunk is the piece find_split_point cut off, remaining is what is left.
AfterSplit ==
    /\ pc = "split"
    /\ remaining.start_offset # current.start_offset

\* C11 as stated: after a split of a chunk (s, l) with l > max_length at the
\* index j that find_split_point returned, s + min_length <= j and
\* j <= s + max_length: the piece cut off has a length in
\* [min_length, max_length] and the remainder has at least min_length bytes.
C11_SplitPointInsideWindow ==
    AfterSplit =>
        /\ out[Len(out)].length >= min_length
        /\ out[Len(out)].length <= max_length
        /\ remaining.length >= min_length

\* The indices of the chunk that the last call of find_split_point was
\* given: the call is made on remaining, whose start is the start of the piece
\* just appended and whose end never moves.
LastSplitCallRange ==
    IF pc = "split"
    THEN out[Len(out)].start_offset..(ChunkEnd(remaining) - 1)
    ELSE out[Len(out)].start_offset..(ChunkEnd(out[Len(out)]) - 1)

\* C12 as stated: every text index that a call of find_split_point on a
\* chunk (s, l), adjust_for_token_boundary included, reads lies in
\* [s, s + l): i - 1 and i - 2 never wrap below 0 and no index at or past
\* the end of the chunk is read, for every 0 <= min_length <= max_length.
C12_SplitReadsInsideChunk ==
    splitReads # {} => splitReads \subseteq LastSplitCallRange

\* C13: in the main loop of the re-chunker, at the start of processing
\* input chunk i the output buffer is non-empty exactly when i > 0, also
\* after a forward merge has skipped an input chunk; so the guard i > 0 of
\* the backward merge is the same as "a chunk has been appended" and the
\* record before the end of the buffer, which the merge reads, exists.
C13_OutputNonEmptyIffNotFirst ==
    (pc = "rechunk" /\ ri < Len(chunks)) => (Len(out) > 0 <=> ri > 0)

\* A short chunk is about to be processed right after a forward merge joined
\* the two chunks before it into the only output chunk.
C13_Witness ==
    /\ pc = "rechunk"
    /\ ri = 2
    /\ ri < Len(chunks)
    /\ current.length < min_length
    /\ Len(out) = 1
    /\ out[1] = Chunk(chunks[1].start_offset,
                      ChunkEnd(chunks[2]) - chunks[1].start_offset)

\* The indices p of the text with text[p] = '.', p + 1 < L and text[p + 1]
\* an ASCII letter.
DotsBeforeLetter ==
    { p \in 0..(Len(text) - 2) : At(text, p) = 46 /\ is_alpha(At(text, p + 1)) }

\* The preceding word W of the '.' at p is empty: p is 0 or the byte before
\* it is whitespace.
EmptyWordBefore(p) == p = 0 \/ is_whitespace(At(text, p - 1))

\* The byte at p was taken into a chunk as a trailing closer of an earlier
\* terminator.
AbsorbedAsCloser(p) ==
    \E q \in terminals :
        /\ q < p
        /\ \A k \in (q + 1)..p : is_closer(At(text, k))

\* C14 as stated: a '.' directly followed by an ASCII letter is classified
\* as not terminal whatever precedes it, and no chunk ends at it unless it
\* was absorbed as a trailing closer of an earlier terminator.
C14_DotBeforeLetterNeverTerminal ==
    \A p \in DotsBeforeLetter :
        /\ p \notin terminals
        /\ \A n \in 1..Len(chunks) :
              ChunkEnd(chunks[n]) = p + 1 => AbsorbedAsCloser(p)

\* C14, amended: a '.' directly followed by an ASCII letter is not terminal
\* when the byte before it is not whitespace; at index 0 or directly after
\* whitespace it is terminal (once the first pass is over, every such '.' has
\* been classified so); a chunk ends at a '.' followed by a letter only if
\* the '.' is terminal in that way or was absorbed as a trailing closer.
C14_DotBeforeLetterTerminalIffEmptyWord ==
    \A p \in DotsBeforeLetter :
        /\ p \in terminals => EmptyWordBefore(p)
        /\ (PassOneDone /\ EmptyWordBefore(p)) => p \in terminals
        /\ \A n \in 1..Len(chunks) :
              ChunkEnd(chunks[n]) = p + 1
                  => (p \in terminals \/ AbsorbedAsCloser(p))

\* The first pass is over on a text with a '.' + letter after a word (not
\* terminal) and one with no word before it (terminal, a chunk ends there).
C14_Witness ==
    /\ PassOneDone
    /\ \E p \in DotsBeforeLetter : ~EmptyWordBefore(p) /\ p \notin terminals
    /\ \E p \in DotsBeforeLetter :
          /\ EmptyWordBefore(p)
          /\ p \in terminals
          /\ \E n \in 1..Len(chunks) : ChunkEnd(chunks[n]) = p + 1

\* The indices i in the window (s + mn, s + mx] with
\* text[i - 1] = text[i] = newline (i - 1 >= s + mn holds for each of them).
DoubleNewlines(s, mn, mx) ==
    { k \in (s + mn + 1)..(s + mx) : At(text, k - 1) = 10 /\ At(text, k) = 10 }

\* C15 as stated: when the window (s + min, s + max] of an over-long chunk
\* (s, l) holds a double newline, find_split_point returns the largest index
\* i of the window with text[i - 1] = text[i] = newline.
C15_DoubleNewlineAlwaysWins ==
    (pc = "split" /\ remaining.length > max_length) =>
        LET s == remaining.start_offset
            D == DoubleNewlines(s, min_length, max_length)
        IN  D # {} =>
               \A ub \in BOOLEAN :
                  LET j == find_split_point(text, s, remaining.length,
                                            min_length, max_length, ub)
                  IN  j \in D /\ \A k \in D : k <= j

\* C15, amended: the same for an over-long chunk with l >= min + max, which
\* is when find_split_point searches the window at all; the double newline
\* wins over every single newline, sentence seam and other whitespace
\* further right in the window.
C15_DoubleNewlineWinsWhenWindowSearched ==
    (/\ pc = "split"
     /\ remaining.length > max_length
     /\ remaining.length >= min_length + max_length) =>
        LET s == remaining.start_offset
            D == DoubleNewlines(s, min_length, max_length)
        IN  D # {} =>
               \A ub \in BOOLEAN :
                  LET j == find_split_point(text, s, remaining.length,
                                            min_length, max_length, ub)
                  IN  j \in D /\ \A k \in D : k <= j

\* A chunk has been split at the largest double newline of its window
\* although whitespace lies further right in the window.
C15_Witness ==
    /\ AfterSplit
    /\ LET s == out[Len(out)].start_offset
           j == remaining.start_offset
           D == DoubleNewlines(s, min_length, max_length)
       IN  /\ j \in D
           /\ \A k \in D : k <= j
           /\ \E k \in (j + 1)..(s + max_length) : isspace(At(text, k))

\* Each loop has a variant: a step that stays in the segmenter loop moves
\* the cursor i forward; a step that stays in the split loop replaces
\* remaining by a strictly shorter chunk with the same end; a step that
\* returns to, or stays at, the head of the main loop of the re-chunker
\* moves its index forward, and no step moves it backward.
LoopsProgress ==
    /\ (pc = "scan" /\ pc' = "scan") => i' > i
    /\ (pc = "split" /\ pc' = "split") =>
          /\ remaining'.length < remaining.length
          /\ ChunkEnd(remaining') = ChunkEnd(remaining)
    /\ (pc \in {"rechunk", "split"} /\ pc' = "rechunk") => ri' > ri
    /\ (pc \in {"rechunk", "split"}) => ri' >= ri

\* C16: every call of the segmenter and of the re-chunker terminates: the
\* cursor i strictly increases on every iteration of the segmenter loop,
\* every iteration of the split loop stops or shortens remaining while
\* keeping its end, the index of the outer loop strictly increases, and so
\* the run of both passes reaches its end.
C16_Terminates ==
    [][LoopsProgress]_vars /\ <>(pc = "done")

\* Both passes have returned after the segmenter loop stepped over punctuation
\* of both kinds and the split loop made more than one split.
C16_Witness ==
    /\ pc = "done"
    /\ terminals # {}
    /\ \E p \in 0..(Len(text) - 1) :
          is_sentence_punct(At(text, p)) /\ ~AbsorbedAsCloser(p)
                                         /\ p \notin terminals
    /\ \E n \in 1..Len(chunks) : \E a, b \in 1..Len(out) :
          /\ a < b
          /\ chunks[n].start_offset <= out[a].start_offset
          /\ ChunkEnd(out[b]) < ChunkEnd(chunks[n])

\* The output chunk o holds bytes of more than one input chunk, which only
\* a merge brings about: an input chunk starts strictly inside it.
IsMerged(o) ==
    \E n \in 1..Len(chunks) :
        /\ o.start_offset < chunks[n].start_offset
        /\ chunks[n].start_offset < ChunkEnd(o)

\* The output chunk o lies inside a single input chunk that is longer than
\* max_length.
InsideOverlongInput(o) ==
    \E n \in 1..Len(chunks) :
        /\ chunks[n].length > max_length
        /\ chunks[n].start_offset <= o.start_offset
        /\ ChunkEnd(o) <= ChunkEnd(chunks[n])

\* C17: merging never produces an over-long chunk: every output chunk that
\* is the result of a backward or forward merge has length <= max_length,
\* so every output chunk longer than max_length lies inside a single input
\* chunk that was itself longer than max_length.
C17_MergedChunksFit ==
    \A k \in 1..Len(out) :
        /\ IsMerged(out[k]) => out[k].length <= max_length
        /\ out[k].length > max_length => InsideOverlongInput(out[k])

\* The second pass has returned an output with a merged chunk and a chunk
\* longer than max_length.
C17_Witness ==
    /\ pc = "done"
    /\ \E k \in 1..Len(out) : IsMerged(out[k])
    /\ \E k \in 1..Len(out) : out[k].length > max_length

\* ------------------------------------------------------------------------
\* Specification
\* ------------------------------------------------------------------------

Next ==
    \/ ChunkerEntry
    \/ SegNormalChar
    \/ SegTerminal
    \/ SegNonTerminal
    \/ SegFinish
    \/ RechunkEntry
    \/ RechunkInRange
    \/ RechunkBackwardMerge
    \/ RechunkForwardMerge
    \/ RechunkShortAsIs
    \/ RechunkSplitBegin
    \/ SplitAppend
    \/ SplitLeftover
    \/ RechunkFinish

Spec == Init /\ [][Next]_vars

\* The two calls run to completion: the program is sequential, so a step
\* that can be taken is taken.
FairSpec == Spec /\ WF_vars(Next)

====
